---------------------------- MODULE Spec2Model ----------------------------
(* Model of app.py (MedGuard AI dashboard script).                         *)
(*                                                                         *)
(* Physical quantities are fixed-point integers in thousandths (78 bpm is  *)
(* 78000); risk scores are integers in hundredths (0.35 is 35).            *)
(* The process-wide numpy generator is a finite congruential generator:    *)
(* seeding sets its state from the seed alone, every draw advances it and  *)
(* yields a value that depends on the new state only.                      *)
EXTENDS Integers, Sequences, FiniteSets, TLC

VARIABLES
    rng,        \* state of the process-wide np.random generator
    widget,     \* session value of the "Select Patient Scenario" selectbox
    pc,         \* position of the script run
    scenario,   \* script global `scenario`
    mode,       \* script global `mode`
    data,       \* script global `data` (patient frame)
    train,      \* script global `train` (training frame)
    model,      \* script global `model`: "unset", "unfitted", "fitted"
    raw_risk,   \* script global `raw_risk` (hundredths), -1 before assignment
    risk,       \* script global `risk` (hundredths), -1 before assignment
    level,      \* script global `level`, "" before assignment
    trace,      \* events of the current script run, in order
    ret,        \* value returned by the latest direct call of a generator
    snap,       \* a patient frame the caller kept from an earlier call
    touched     \* TRUE when the generator was used since the frame was kept

vars == <<rng, widget, pc, scenario, mode, data, train, model, raw_risk,
          risk, level, trace, ret, snap, touched>>

scriptVars == <<widget, pc, scenario, mode, data, train, model, raw_risk,
                risk, level, trace>>

----------------------------------------------------------------------------
(* Bounds of the model *)

RngMod == 16        \* number of states of the generator
MaxHours == 30      \* largest `hours` argument tried
MaxSamples == 4     \* largest `samples` argument tried
MaxRisk == 100      \* largest probability (hundredths) the model predicts

(* Program constants *)

EarlyOffset == 28
SevereOffset == 20
DefaultHours == 48
DefaultSamples == 400
PatientSeed == 42
TrainingSeed == 1
LowThreshold == 35
HighThreshold == 70

Modes == {"stable", "early", "severe"}
Scenarios == {"Stable Patient", "Early Deterioration", "Critical Condition"}

(* `hours` arguments tried: around zero, around each ramp offset, and past  *)
(* both offsets.                                                           *)
HoursCases ==
    {-1, 0, 1} \cup (SevereOffset - 1 .. SevereOffset + 1)
               \cup (EarlyOffset - 1 .. EarlyOffset + 1) \cup {MaxHours}

SamplesCases == 0 .. MaxSamples

----------------------------------------------------------------------------
(* numpy *)

\* Variant: the call does not reseed; the generator stays where it was.
np_random_seed_noop(st, s) == st

\* np.random.seed(s): the state becomes a function of the seed alone.
np_random_seed(st, s) == s % RngMod

\* One step of the generator.
rng_step(st) == (5 * st + 1) % RngMod

\* Standard-normal variate in half-sigmas, read from the generator state.
rng_z(st) == (st % 9) - 4

\* The states the generator passes through in n consecutive draws from st.
RECURSIVE rng_states(_, _)
rng_states(st, n) ==
    IF n <= 0 THEN <<>>
    ELSE IF n = 1 THEN <<rng_step(st)>>
    ELSE LET a == rng_states(st, n \div 2)
         IN  a \o rng_states(a[Len(a)], n - n \div 2)

\* The state left behind by the draws that passed through states sts.
rng_last(st, sts) == IF Len(sts) = 0 THEN st ELSE sts[Len(sts)]

\* A normal variate N(loc, scale) as read from the state s reached by a draw.
normal_value(s, loc, scale) == loc + (scale * rng_z(s)) \div 2

\* np.random.normal(loc, scale, size): `size` consecutive draws from st.
np_random_normal(st, loc, scale, size) ==
    LET sts == rng_states(st, size)
    IN  [rng |-> rng_last(st, sts),
         vals |-> [i \in 1 .. size |-> normal_value(sts[i], loc, scale)]]

\* np.linspace(start, stop, num) for num >= 0.
np_linspace(start, stop, num) ==
    [i \in 1 .. num |->
        IF num = 1 THEN start
        ELSE start + ((i - 1) * (stop - start)) \div (num - 1)]

----------------------------------------------------------------------------
(* pandas *)

\* Variant: the frame is cut down to the selected rows (df = df.loc[from:]).
loc_add_drop(df, from, col, sign, arr) ==
    [i \in 1 .. Len(arr) |->
        [df[i + Len(df) - Len(arr)] EXCEPT ![col] = @ + sign * arr[i]]]

\* Variant: the ramp is assigned to the selected rows instead of added.
loc_add_assign(df, from, col, sign, arr) ==
    [i \in 1 .. Len(df) |->
        IF df[i].hour >= from
        THEN [df[i] EXCEPT ![col] = sign * arr[df[i].hour - from + 1]]
        ELSE df[i]]

\* df.loc[from:, col] += sign * arr  (rows are labelled by `hour`).
loc_add(df, from, col, sign, arr) ==
    [i \in 1 .. Len(df) |->
        IF df[i].hour >= from
        THEN [df[i] EXCEPT ![col] = @ + sign * arr[df[i].hour - from + 1]]
        ELSE df[i]]

----------------------------------------------------------------------------
(* Patient Data Generator *)

\* The `if mode == "early"` block.
ramp_early(df, hours) ==
    LET n  == hours - EarlyOffset
        d1 == loc_add(df, EarlyOffset, "heart_rate", 1, np_linspace(0, 18000, n))
        d2 == loc_add(d1, EarlyOffset, "systolic_bp", -1, np_linspace(0, 15000, n))
    IN  loc_add(d2, EarlyOffset, "spo2", -1, np_linspace(0, 3000, n))

\* The `if mode == "severe"` block.
ramp_severe(df, hours) ==
    LET n  == hours - SevereOffset
        d1 == loc_add(df, SevereOffset, "heart_rate", 1, np_linspace(10000, 35000, n))
        d2 == loc_add(d1, SevereOffset, "systolic_bp", -1, np_linspace(10000, 45000, n))
        d3 == loc_add(d2, SevereOffset, "spo2", -1, np_linspace(3000, 9000, n))
    IN  loc_add(d3, SevereOffset, "temperature", 1, np_linspace(300, 1200, n))

\* generate_patient_data(hours, mode) called with the generator in state st.
\* Result: the generator state left behind, "ok" or the exception raised,
\* and the frame returned (empty when an exception is raised).
generate_patient_data(st, hours, md) ==
    LET s0 == np_random_seed(st, PatientSeed)
    IN  IF hours < 0
        THEN \* np.random.normal rejects a negative size
             [rng |-> s0, status |-> "ValueError", df |-> <<>>]
        ELSE
          LET hr == np_random_normal(s0, 78000, 5000, hours)
              bp == np_random_normal(hr.rng, 125000, 8000, hours)
              sp == np_random_normal(bp.rng, 98000, 1000, hours)
              tp == np_random_normal(sp.rng, 36800, 200, hours)
              df == [i \in 1 .. hours |->
                        [hour |-> i - 1,
                         heart_rate |-> hr.vals[i],
                         systolic_bp |-> bp.vals[i],
                         spo2 |-> sp.vals[i],
                         temperature |-> tp.vals[i]]]
          IN  IF md = "early"
              THEN IF hours - EarlyOffset < 0
                   THEN \* np.linspace rejects a negative number of samples
                        [rng |-> tp.rng, status |-> "ValueError", df |-> <<>>]
                   ELSE [rng |-> tp.rng, status |-> "ok",
                         df |-> ramp_early(df, hours)]
              ELSE IF md = "severe"
              THEN IF hours - SevereOffset < 0
                   THEN [rng |-> tp.rng, status |-> "ValueError", df |-> <<>>]
                   ELSE [rng |-> tp.rng, status |-> "ok",
                         df |-> ramp_severe(df, hours)]
              ELSE [rng |-> tp.rng, status |-> "ok", df |-> df]

----------------------------------------------------------------------------
(* Training data *)

\* Variant: the heart-rate comparison is not strict.
label_of_ge(hr, bp, spo2) ==
    IF (hr >= 100000) \/ (bp < 95000) \/ (spo2 < 92000) THEN 1 ELSE 0

\* The label expression of generate_training_data.
label_of(hr, bp, spo2) ==
    IF (hr > 100000) \/ (bp < 95000) \/ (spo2 < 92000) THEN 1 ELSE 0

\* The loop of generate_training_data: `samples` iterations from state st,
\* four draws (hr, bp, spo2, temp) per iteration.
training_rows(st, samples) ==
    LET sts == rng_states(st, 4 * samples)
        row(j) ==
            LET hr == normal_value(sts[4 * j - 3], 85000, 15000)
                bp == normal_value(sts[4 * j - 2], 120000, 20000)
                sp == normal_value(sts[4 * j - 1], 96000, 3000)
                tp == normal_value(sts[4 * j], 37000, 600)
            IN  [heart_rate |-> hr, systolic_bp |-> bp, spo2 |-> sp,
                 temperature |-> tp, label |-> label_of(hr, bp, sp)]
    IN  [rng |-> rng_last(st, sts),
         rows |-> [j \in 1 .. samples |-> row(j)]]

\* generate_training_data(samples) called with the generator in state st.
generate_training_data(st, samples) ==
    LET r == training_rows(np_random_seed(st, TrainingSeed), samples)
    IN  [rng |-> r.rng, status |-> "ok", df |-> r.rows]

----------------------------------------------------------------------------
(* Direct calls of the generators *)

NoCall ==
    [kind |-> "none", arg |-> 0, mode |-> "", status |-> "", df |-> <<>>,
     between |-> FALSE]

\* The results of generate_patient_data for the arguments tried, per state
\* of the generator at the call.
PatientResults ==
    [st \in 0 .. RngMod - 1, hours \in HoursCases, md \in Modes |->
        generate_patient_data(st, hours, md)]

\* The results of generate_training_data for the arguments tried.
TrainingResults ==
    [st \in 0 .. RngMod - 1, samples \in SamplesCases |->
        generate_training_data(st, samples)]

InitGlobals ==
    /\ rng \in 0 .. RngMod - 1
    /\ widget = "Stable Patient"
    /\ scenario = ""
    /\ mode = ""
    /\ data = <<>>
    /\ train = <<>>
    /\ model = "unset"
    /\ raw_risk = -1
    /\ risk = -1
    /\ level = ""
    /\ trace = <<>>
    /\ ret = NoCall
    /\ snap = NoCall
    /\ touched = FALSE

InitCalls == InitGlobals /\ pc = "idle"

\* A caller invokes generate_patient_data(hours, mode).
CallPatient(hours, md) ==
    LET r == PatientResults[rng, hours, md]
    IN  /\ rng' = r.rng
        /\ ret' = [kind |-> "patient", arg |-> hours, mode |-> md,
                   status |-> r.status, df |-> r.df, between |-> touched]
        /\ touched' = TRUE
        /\ UNCHANGED <<scriptVars, snap>>

CallPatientAny == \E hours \in HoursCases, md \in Modes : CallPatient(hours, md)

\* A caller invokes generate_training_data(samples).
CallTraining(samples) ==
    LET r == TrainingResults[rng, samples]
    IN  /\ rng' = r.rng
        /\ ret' = [kind |-> "training", arg |-> samples, mode |-> "",
                   status |-> r.status, df |-> r.df, between |-> touched]
        /\ touched' = TRUE
        /\ UNCHANGED <<scriptVars, snap>>

CallTrainingAny == \E samples \in SamplesCases : CallTraining(samples)

\* Other code draws one number from the process-wide generator.
OtherDraw ==
    /\ rng' = rng_step(rng)
    /\ touched' = TRUE
    /\ UNCHANGED <<scriptVars, ret, snap>>

\* The caller keeps the patient frame it was just handed.
Keep ==
    /\ ret.kind = "patient"
    /\ snap' = ret
    /\ touched' = FALSE
    /\ UNCHANGED <<rng, scriptVars, ret>>

NextCalls == CallPatientAny \/ CallTrainingAny \/ OtherDraw \/ Keep

SpecCalls == InitCalls /\ [][NextCalls]_vars

----------------------------------------------------------------------------
(* Risk score and risk level *)

\* np.clip(x, lo, hi)
np_clip(x, lo, hi) == IF x < lo THEN lo ELSE IF x > hi THEN hi ELSE x

\* Variant: the computed score is passed through.
controlled_risk_raw(sc, raw) == raw

\* The "Controlled risk" block: `risk` from `scenario` and `raw_risk`.
controlled_risk(sc, raw) ==
    IF sc = "Stable Patient" THEN np_clip(raw, 10, 30)
    ELSE IF sc = "Early Deterioration" THEN np_clip(raw, 40, 60)
    ELSE np_clip(raw, 75, 95)

\* Variant: the comparisons of the ladder are not strict.
risk_level_le(r) ==
    IF r <= LowThreshold THEN "Stable"
    ELSE IF r <= HighThreshold THEN "Early Deterioration"
    ELSE "Critical Condition"

\* The "Risk Level" ladder: `level` from `risk`.
risk_level(r) ==
    IF r < LowThreshold THEN "Stable"
    ELSE IF r < HighThreshold THEN "Early Deterioration"
    ELSE "Critical Condition"

\* The conditional expression that sets `mode`.
mode_of(sc) ==
    IF sc = "Stable Patient" THEN "stable"
    ELSE IF sc = "Early Deterioration" THEN "early"
    ELSE "severe"

----------------------------------------------------------------------------
(* One run of the script, top to bottom; Streamlit runs it again in the    *)
(* same process whenever the selection changes.                            *)

Init == InitGlobals /\ pc = "selectbox"

callVars == <<ret, snap, touched>>

\* scenario = st.selectbox(...)
SelectScenario ==
    /\ pc = "selectbox"
    /\ scenario' = widget
    /\ pc' = "generate"
    /\ UNCHANGED <<rng, widget, mode, data, train, model, raw_risk, risk,
                   level, trace, callVars>>

\* mode = ...; data = generate_patient_data(mode=mode)
GeneratePatient ==
    /\ pc = "generate"
    /\ LET md == mode_of(scenario)
           r  == generate_patient_data(rng, DefaultHours, md)
       IN  /\ mode' = md
           /\ rng' = r.rng
           /\ data' = r.df
           /\ pc' = IF r.status = "ok" THEN "train" ELSE "failed"
           /\ trace' = Append(trace, "generate_patient_data")
    /\ UNCHANGED <<widget, scenario, train, model, raw_risk, risk, level,
                   callVars>>

\* train = generate_training_data()
GenerateTraining ==
    /\ pc = "train"
    /\ LET r == generate_training_data(rng, DefaultSamples)
       IN  /\ rng' = r.rng
           /\ train' = r.df
    /\ pc' = "model"
    /\ trace' = Append(trace, "generate_training_data")
    /\ UNCHANGED <<widget, scenario, mode, data, model, raw_risk, risk, level,
                   callVars>>

\* model = LogisticRegression()
NewModel ==
    /\ pc = "model"
    /\ model' = "unfitted"
    /\ pc' = "fit"
    /\ UNCHANGED <<rng, widget, scenario, mode, data, train, raw_risk, risk,
                   level, trace, callVars>>

\* Variant: the fit statement is missing.
Fit_skipped ==
    /\ pc = "fit"
    /\ pc' = "predict"
    /\ UNCHANGED <<rng, widget, scenario, mode, data, train, model, raw_risk,
                   risk, level, trace, callVars>>

\* model.fit(X_train, y_train)
Fit ==
    /\ pc = "fit"
    /\ model' = "fitted"
    /\ trace' = Append(trace, "fit")
    /\ pc' = "predict"
    /\ UNCHANGED <<rng, widget, scenario, mode, data, train, raw_risk, risk,
                   level, callVars>>

\* data["raw_risk"] = model.predict_proba(X_patient)[:, 1]
\* raw_risk = data.iloc[-1]["raw_risk"]
\* predict_proba raises NotFittedError on an unfitted estimator; on a fitted
\* one the probability of the last sample is some value in [0, 1].
Predict ==
    /\ pc = "predict"
    /\ IF model = "fitted"
       THEN /\ \E p \in 0 .. MaxRisk : raw_risk' = p
            /\ trace' = Append(trace, "predict")
            /\ pc' = "control"
       ELSE /\ raw_risk' = raw_risk
            /\ trace' = Append(trace, "NotFitted")
            /\ pc' = "failed"
    /\ UNCHANGED <<rng, widget, scenario, mode, data, train, model, risk,
                   level, callVars>>

\* if scenario == ...: risk = float(np.clip(raw_risk, lo, hi))
ControlRisk ==
    /\ pc = "control"
    /\ risk' = controlled_risk(scenario, raw_risk)
    /\ pc' = "level"
    /\ UNCHANGED <<rng, widget, scenario, mode, data, train, model, raw_risk,
                   level, trace, callVars>>

\* if risk < 0.35: ... elif risk < 0.7: ... else: ...
RiskLevel ==
    /\ pc = "level"
    /\ level' = risk_level(risk)
    /\ pc' = "done"
    /\ UNCHANGED <<rng, widget, scenario, mode, data, train, model, raw_risk,
                   risk, trace, callVars>>

\* The user picks a scenario; the script starts over with fresh globals.
\* The process-wide generator keeps its state.
Rerun ==
    /\ pc \in {"done", "failed"}
    /\ \E sc \in Scenarios : widget' = sc
    /\ pc' = "selectbox"
    /\ scenario' = ""
    /\ mode' = ""
    /\ data' = <<>>
    /\ train' = <<>>
    /\ model' = "unset"
    /\ raw_risk' = -1
    /\ risk' = -1
    /\ level' = ""
    /\ trace' = <<>>
    /\ UNCHANGED <<rng, callVars>>

Next ==
    \/ SelectScenario
    \/ GeneratePatient
    \/ GenerateTraining
    \/ NewModel
    \/ Fit
    \/ Predict
    \/ ControlRisk
    \/ RiskLevel
    \/ Rerun

Spec == Init /\ [][Next]_vars

----------------------------------------------------------------------------
(* The risk level ladder applied to every score *)

InitLevel == InitGlobals /\ pc = "idle"

\* The ladder is run on a score r.
Classify(r) ==
    /\ risk' = r
    /\ level' = risk_level(r)
    /\ UNCHANGED <<rng, widget, pc, scenario, mode, data, train, model,
                   raw_risk, trace, callVars>>

ClassifyAny == \E r \in 0 .. MaxRisk : Classify(r)

NextLevel == ClassifyAny

SpecLevel == InitLevel /\ [][NextLevel]_vars

----------------------------------------------------------------------------
(* Properties *)

\* The level that carries a scenario's name.
OwnLevel(sc) == IF sc = "Stable Patient" THEN "Stable" ELSE sc

\* C1: with thresholds 0.35 and 0.70 every score below 0.35 is classified
\* Stable, every score from 0.35 up to but excluding 0.70 Early Deterioration
\* (Moderate), and every score from 0.70 on Critical; a score equal to a
\* threshold falls in the higher bucket.
C1_LevelThresholds ==
    level # "" =>
        /\ level \in {"Stable", "Early Deterioration", "Critical Condition"}
        /\ (level = "Stable") <=> (risk < LowThreshold)
        /\ (level = "Early Deterioration")
               <=> (LowThreshold <= risk /\ risk < HighThreshold)
        /\ (level = "Critical Condition") <=> (risk >= HighThreshold)

C1_Witness ==
    /\ pc = "idle"
    /\ risk = LowThreshold
    /\ level = "Early Deterioration"

\* C2: the score that is classified is the model's computed score for the
\* last sample, with no scenario-dependent override.
C2_RiskIsComputedScore == risk # -1 => risk = raw_risk

\* C3: generate_patient_data fails exactly when hours <= 0 or hours is at
\* most the ramp offset of the mode (28 for early, 20 for severe).
C3_InvalidArgument ==
    ret.kind = "patient" =>
        ((ret.status # "ok") <=>
            \/ ret.arg <= 0
            \/ (ret.mode = "early" /\ ret.arg <= EarlyOffset)
            \/ (ret.mode = "severe" /\ ret.arg <= SevereOffset))

\* C4: whenever generate_patient_data returns for hours > 0, the frame has
\* exactly `hours` rows whose hour values are 0, 1, ..., hours-1 in order.
C4_HoursContiguous ==
    (ret.kind = "patient" /\ ret.status = "ok" /\ ret.arg > 0) =>
        /\ Len(ret.df) = ret.arg
        /\ \A i \in 1 .. Len(ret.df) : ret.df[i].hour = i - 1

C4_Witness ==
    /\ ret.kind = "patient"
    /\ ret.status = "ok"
    /\ ret.mode = "early"
    /\ ret.arg > EarlyOffset + 1
    /\ Len(ret.df) = ret.arg

SameCall ==
    /\ ret.kind = "patient"
    /\ snap.kind = "patient"
    /\ ret.arg = snap.arg
    /\ ret.mode = snap.mode

\* C5: two calls of generate_patient_data with the same (hours, mode) have
\* the same outcome and return the same frame, whatever was run in between.
C5_Deterministic ==
    SameCall => (ret.status = snap.status /\ ret.df = snap.df)

C5_Witness ==
    /\ SameCall
    /\ ret.between
    /\ ret.status = "ok"
    /\ ret.mode = "severe"
    /\ ret.arg > SevereOffset + 1

\* C6: a call of generate_patient_data or generate_training_data leaves the
\* state of the process-wide random-number generator unchanged.
C6_GeneratorUntouched ==
    [][(CallPatientAny \/ CallTrainingAny) => rng' = rng]_vars

\* The ramp term of row i of the latest frame in channel c, measured against
\* the kept frame; sgn is the direction of the ramp in that channel.
RampTerm(i, c, sgn) == sgn * (ret.df[i][c] - snap.df[i][c])

RampedChannels(md) ==
    IF md = "early"
    THEN {<<"heart_rate", 1>>, <<"systolic_bp", -1>>, <<"spo2", -1>>}
    ELSE {<<"heart_rate", 1>>, <<"systolic_bp", -1>>, <<"spo2", -1>>,
          <<"temperature", 1>>}

OffsetOf(md) == IF md = "early" THEN EarlyOffset ELSE SevereOffset

StableThenRamped ==
    /\ snap.kind = "patient" /\ snap.mode = "stable" /\ snap.status = "ok"
    /\ ret.kind = "patient" /\ ret.mode \in {"early", "severe"}
    /\ ret.status = "ok"
    /\ ret.arg = snap.arg

\* C7: for the same hours the early (severe) frame equals the stable frame
\* in all four channels at every hour below 28 (20), the early frame equals
\* it in temperature at every hour, and from the offset on every ramped
\* channel is the stable value plus (heart_rate, temperature) or minus
\* (systolic_bp, spo2) a term that is non-negative and non-decreasing in hour.
C7_RampOnSuffix ==
    StableThenRamped =>
        /\ Len(ret.df) = Len(snap.df)
        /\ \A i \in 1 .. Len(ret.df) :
              /\ ret.df[i].hour = snap.df[i].hour
              /\ ret.df[i].hour < OffsetOf(ret.mode) => ret.df[i] = snap.df[i]
              /\ ret.mode = "early"
                    => ret.df[i].temperature = snap.df[i].temperature
              /\ ret.df[i].hour >= OffsetOf(ret.mode) =>
                    \A cs \in RampedChannels(ret.mode) :
                        /\ RampTerm(i, cs[1], cs[2]) >= 0
                        /\ \A j \in i .. Len(ret.df) :
                              RampTerm(i, cs[1], cs[2])
                                  <= RampTerm(j, cs[1], cs[2])

C7_Witness ==
    /\ StableThenRamped
    /\ ret.arg > EarlyOffset + 1
    /\ ret.mode = "early"
    /\ ret.df[ret.arg].heart_rate > snap.df[ret.arg].heart_rate
    /\ ret.df[EarlyOffset].heart_rate = snap.df[EarlyOffset].heart_rate

Events(e) == {i \in DOMAIN trace : trace[i] = e}

\* C8: within a run of the script the model is fit exactly once, before the
\* first prediction, it is not changed after the prediction, and no
\* prediction is made on an unfitted model.
C8_FitOnceBeforePredict ==
    /\ Events("NotFitted") = {}
    /\ pc # "failed"
    /\ Events("predict") # {} =>
          /\ Cardinality(Events("fit")) = 1
          /\ \A f \in Events("fit"), p \in Events("predict") : f < p
          /\ model = "fitted"

C8_Witness ==
    /\ pc = "done"
    /\ Events("predict") # {}
    /\ Events("fit") # {}

\* C9: generate_training_data returns exactly `samples` rows, and the label
\* of a row is 1 if heart_rate > 100 or systolic_bp < 95 or spo2 < 92, and
\* 0 otherwise, whatever the temperature.
C9_TrainingLabels ==
    ret.kind = "training" =>
        /\ Len(ret.df) = ret.arg
        /\ \A i \in 1 .. Len(ret.df) :
              LET row == ret.df[i]
              IN  /\ row.label \in {0, 1}
                  /\ (row.label = 1) <=>
                        \/ row.heart_rate > 100000
                        \/ row.systolic_bp < 95000
                        \/ row.spo2 < 92000

C9_Witness ==
    /\ ret.kind = "training"
    /\ \E i \in 1 .. Len(ret.df) :
          ret.df[i].label = 0 /\ ret.df[i].heart_rate = 100000
    /\ \E i \in 1 .. Len(ret.df) : ret.df[i].label = 1

\* C10: the displayed level is the one of the selected scenario, whatever
\* the model predicts: Stable Patient gives a risk in [0.10, 0.30] and level
\* Stable, Early Deterioration a risk in [0.40, 0.60] and its own level,
\* Critical Condition a risk in [0.75, 0.95] and its own level.
C10_LevelFollowsScenario ==
    level # "" =>
        /\ level = OwnLevel(scenario)
        /\ scenario = "Stable Patient" => (10 <= risk /\ risk <= 30)
        /\ scenario = "Early Deterioration" => (40 <= risk /\ risk <= 60)
        /\ scenario = "Critical Condition" => (75 <= risk /\ risk <= 95)

C10_Witness ==
    /\ pc = "done"
    /\ scenario = "Critical Condition"
    /\ raw_risk < LowThreshold
    /\ level = "Critical Condition"

=============================================================================
